---- MODULE Spec2Model ----
(***************************************************************************)
(* Model of src/src/api/cloud_api.py: the classification of a decoded API  *)
(* response (ApiResponse.as_paginated_response, StdResponse,               *)
(* PaginatedResponse) and the page navigation of a PaginatedResponse       *)
(* cursor against an HTTP server.                                          *)
(*                                                                         *)
(* Python values are modelled as follows.  A dict is a function from a set *)
(* of string keys; None is the empty tuple; an endpoint string is a        *)
(* non-empty tuple; an exception is a record [type, arg].  The page        *)
(* numbers of an envelope are integers whenever their key is present.      *)
(***************************************************************************)
EXTENDS Integers, Sequences, FiniteSets, TLC

\* ------------------------------------------------------------------ bounds
\* Largest page number an unreliable server writes into an envelope.
MaxPage == 2
\* Largest last page of a collection served by a consistent server.
MaxLast == 3
\* Largest id of a cached object.
MaxId == 2
\* Longest list of objects passed to cache_object_by_id.
MaxObjects == 2

\* ------------------------------------------------------- program constants
HTTP_OK == 200
API_BASE_URL == "base"

\* ------------------------------------------------------------ Python values
\* None as the value of a URL field (JSON null); an endpoint is a non-empty
\* tuple such as <<"page", 2>>.
None == <<>>
\* What json.loads returns: None, or a dict with its items.
PyNone == [type |-> "NoneType", items |-> <<>>]
PyDict(e) == [type |-> "dict", items |-> e]
NoException == [type |-> "none", arg |-> ""]
Exception(t, a) == [type |-> t, arg |-> a]

\* The classes above each exception class the code raises or lets through
\* (Python's and requests' class hierarchy).
Superclasses(type) ==
  CASE type = "IndexError" -> {"LookupError", "Exception"}
    [] type = "KeyError" -> {"LookupError", "Exception"}
    [] type = "ValueError" -> {"Exception"}
    [] type = "JSONDecodeError" -> {"ValueError", "Exception"}
    [] type = "AttributeError" -> {"Exception"}
    [] type = "ConnectionError" -> {"RequestException", "OSError", "Exception"}
    [] OTHER -> {}

\* Whether `except handler` catches an exception of class type.
Catches(handler, type) == handler = type \/ handler \in Superclasses(type)
\* The object a failed constructor leaves behind: none.
NoObject == [class |-> "none"]

\* The keys PaginatedResponse reads from an envelope.
Keys ==
  {"data", "current_page", "first_page", "last_page",
   "prev_page_url", "next_page_url", "first_page_url"}

\* The attribute assignments of PaginatedResponse.__init__, in program
\* order: <<attribute, key read from the envelope>>.
InitAssignments ==
  << <<"data", "data">>,
     <<"_page", "current_page">>,
     <<"_first_page", "first_page">>,
     <<"_last_page", "last_page">>,
     <<"_prev_page_url", "prev_page_url">>,
     <<"_next_page_url", "next_page_url">>,
     <<"_first_url", "first_page_url">>,
     <<"_next_url", "next_page_url">> >>

\* SetAssignments without the assignment of _first_url.
SetAssignments_keeps_first_url ==
  << <<"data", "data">>,
     <<"_page", "current_page">>,
     <<"_first_page", "first_page">>,
     <<"_last_page", "last_page">>,
     <<"_prev_page_url", "prev_page_url">>,
     <<"_next_page_url", "next_page_url">>,
     <<"_next_url", "next_page_url">> >>

\* The attribute assignments of _set_data_from_new_reponse, in program order.
SetAssignments ==
  << <<"data", "data">>,
     <<"_page", "current_page">>,
     <<"_first_page", "first_page">>,
     <<"_last_page", "last_page">>,
     <<"_prev_page_url", "prev_page_url">>,
     <<"_next_page_url", "next_page_url">>,
     <<"_first_url", "first_page_url">>,
     <<"_next_url", "next_page_url">> >>

\* ---------------------------------------------------------------- bodies
\* A response body is text.  What json.loads makes of it is all the code
\* looks at: text that is no JSON, the text "null", or a JSON object.
InvalidBody == [json |-> "invalid", obj |-> <<>>]
NullBody == [json |-> "null", obj |-> <<>>]
ObjectBody(e) == [json |-> "object", obj |-> e]

\* json.loads: the decoded value, or JSONDecodeError.
json_loads(body) ==
  CASE body.json = "invalid" ->
         [exc |-> Exception("JSONDecodeError", "Expecting value"), value |-> PyNone]
    [] body.json = "null" -> [exc |-> NoException, value |-> PyNone]
    [] OTHER -> [exc |-> NoException, value |-> PyDict(body.obj)]

\* `not pr`: None and the empty dict are falsy.
Falsy(pr) == pr.type = "NoneType" \/ DOMAIN pr.items = {}

\* NotGet with the test `"current_page" not in response`: a present 0 counts
\* as a page number.
NotGet_absent_only(pr, key) == key \notin DOMAIN pr.items

\* `not response.get("current_page")` on a dict: the key is absent (get
\* returns None) or its value is 0.
NotGet(pr, key) == key \notin DOMAIN pr.items \/ pr.items[key] = 0

\* A run of attribute assignments `obj.attr = pr[key]` from the i-th on:
\* each takes effect at once; the first absent key raises KeyError(key) and
\* the assignments after it are not executed.
RECURSIVE Assign(_, _, _, _)
Assign(obj, pr, assignments, i) ==
  IF i > Len(assignments)
    THEN [obj |-> obj, exc |-> NoException]
    ELSE LET attr == assignments[i][1]
             key == assignments[i][2]
         IN IF key \notin DOMAIN pr.items
              THEN [obj |-> obj, exc |-> Exception("KeyError", key)]
              ELSE Assign((attr :> pr.items[key]) @@ obj, pr, assignments, i + 1)

\* ---------------------------------------------------------------- classes
\* StdResponse.__init__: the new object, or the exception raised.
StdResponse(pr) ==
  IF Falsy(pr)
    THEN [obj |-> NoObject, exc |-> Exception("ValueError", "Response cannot be None")]
    ELSE IF "data" \notin DOMAIN pr.items
      THEN [obj |-> NoObject, exc |-> Exception("KeyError", "data")]
      ELSE [obj |-> [class |-> "StdResponse", data |-> pr.items["data"]],
            exc |-> NoException]

\* PaginatedResponse.__init__ with the KeyError of a missing key replaced by
\* the generic ValueError of the empty check.
PaginatedResponse_generic_error(pr) ==
  IF Falsy(pr)
    THEN [obj |-> NoObject, exc |-> Exception("ValueError", "Response cannot be None")]
    ELSE LET a == Assign([class |-> "PaginatedResponse"], pr, InitAssignments, 1)
         IN IF a.exc = NoException
              THEN a
              ELSE [obj |-> NoObject,
                    exc |-> Exception("ValueError", "Response cannot be None")]

\* PaginatedResponse.__init__: the new object, or the exception raised (an
\* exception in a constructor leaves the caller without an object).
PaginatedResponse(pr) ==
  IF Falsy(pr)
    THEN [obj |-> NoObject, exc |-> Exception("ValueError", "Response cannot be None")]
    ELSE LET a == Assign([class |-> "PaginatedResponse"], pr, InitAssignments, 1)
         IN IF a.exc = NoException THEN a ELSE [obj |-> NoObject, exc |-> a.exc]

\* ApiResponse.as_paginated_response.  json.JSONDecodeError is logged and
\* re-raised; None has no attribute get.
as_paginated_response(response) ==
  LET d == json_loads(response.response_body)
  IN IF d.exc # NoException
       THEN [obj |-> NoObject, exc |-> d.exc]
       ELSE IF d.value.type = "NoneType"
         THEN [obj |-> NoObject,
               exc |-> Exception("AttributeError", "get")]
         ELSE IF NotGet(d.value, "current_page")
           THEN StdResponse(d.value)
           ELSE PaginatedResponse(d.value)

\* PaginatedResponse._set_data_from_new_reponse: self after the call (the
\* attributes assigned before an exception keep their new values) and the
\* exception raised.
set_data_from_new_reponse(self, pr) ==
  IF Falsy(pr)
    THEN [obj |-> self, exc |-> Exception("ValueError", "Response cannot be None")]
    ELSE Assign(self, pr, SetAssignments, 1)

has_next_page(self) == self._page < self._last_page

has_prev_page(self) == self._page < self._first_page

\* -------------------------------------------------------------- transport
\* form_url_endpoint: f"{config.API_BASE_URL}/{endpoint}"; None is formatted
\* as the text "None".
form_url_endpoint(endpoint) ==
  <<API_BASE_URL>> \o (IF endpoint = None THEN <<"None">> ELSE endpoint)

ApiResponse(code, body) == [response_code |-> code, response_body |-> body]

\* What the transport does with one request: requests.get returns a
\* response (error = ""), or raises the exception named by error.
NoResponse == ApiResponse(0, InvalidBody)
Answered(r) == [error |-> "", response |-> r]
Raised(e) == [error |-> e, response |-> NoResponse]
NoOutcome == Answered(NoResponse)

\* __call_api for METHOD_GET: an exception of requests.get is not caught;
\* otherwise the status code and text become an ApiResponse.
call_api(url, t) ==
  IF t.error # ""
    THEN [exc |-> Exception(t.error, "requests.get"), response |-> NoResponse]
    ELSE [exc |-> NoException,
          response |-> ApiResponse(t.response.response_code, t.response.response_body)]

\* api_get: the URL requested and what __call_api makes of the outcome t.
api_get(endpoint, t) ==
  LET url == form_url_endpoint(endpoint)
      c == call_api(url, t)
  IN [url |-> url, exc |-> c.exc, response |-> c.response]

\* fetch_and_apply with the envelope applied before the status is looked at.
fetch_and_apply_late_check(self, endpoint, t, what) ==
  LET g == api_get(endpoint, t)
      r == g.response
      d == json_loads(r.response_body)
      s == IF d.exc # NoException
             THEN [obj |-> self, exc |-> d.exc]
             ELSE set_data_from_new_reponse(self, d.value)
  IN IF g.exc # NoException
       THEN [obj |-> self, exc |-> g.exc, requested |-> <<g.url>>, status |-> 0]
       ELSE IF r.response_code # HTTP_OK
         THEN [obj |-> s.obj, exc |-> Exception("ValueError", what),
               requested |-> <<g.url>>, status |-> r.response_code]
         ELSE [obj |-> s.obj, exc |-> s.exc,
               requested |-> <<g.url>>, status |-> r.response_code]

\* fetch_and_apply with an exception of the transport turned into the
\* ValueError of the status check.
fetch_and_apply_converts(self, endpoint, t, what) ==
  LET g == api_get(endpoint, t)
      r == g.response
  IN IF g.exc # NoException \/ r.response_code # HTTP_OK
       THEN [obj |-> self, exc |-> Exception("ValueError", what),
             requested |-> <<g.url>>, status |-> r.response_code]
       ELSE LET d == json_loads(r.response_body)
            IN IF d.exc # NoException
                 THEN [obj |-> self, exc |-> d.exc,
                       requested |-> <<g.url>>, status |-> r.response_code]
                 ELSE LET s == set_data_from_new_reponse(self, d.value)
                      IN [obj |-> s.obj, exc |-> s.exc,
                          requested |-> <<g.url>>, status |-> r.response_code]

\* What one navigation call does after its guard: api_get(endpoint), the
\* status check, json.loads and _set_data_from_new_reponse.  t is what the
\* transport does with the request.  The result is self after the call, the
\* exception raised, the URLs requested and the status received (0 if
\* none).  An exception of the transport leaves api_get and the method
\* uncaught.
fetch_and_apply(self, endpoint, t, what) ==
  LET g == api_get(endpoint, t)
      r == g.response
  IN IF g.exc # NoException
       THEN [obj |-> self, exc |-> g.exc, requested |-> <<g.url>>, status |-> 0]
       ELSE IF r.response_code # HTTP_OK
         THEN [obj |-> self, exc |-> Exception("ValueError", what),
               requested |-> <<g.url>>, status |-> r.response_code]
         ELSE LET d == json_loads(r.response_body)
              IN IF d.exc # NoException
                   THEN [obj |-> self, exc |-> d.exc,
                         requested |-> <<g.url>>, status |-> r.response_code]
                   ELSE LET s == set_data_from_new_reponse(self, d.value)
                        IN [obj |-> s.obj, exc |-> s.exc,
                            requested |-> <<g.url>>, status |-> r.response_code]

\* A guard that fails: IndexError before any request.
OutOfRange(self, what) ==
  [obj |-> self, exc |-> Exception("IndexError", what),
   requested |-> <<>>, status |-> 0]

\* go_next_page with the guard `>` in place of `>=`.
go_next_page_off_by_one(self, t) ==
  IF self._page > self._last_page
    THEN OutOfRange(self, "No next page available")
    ELSE fetch_and_apply(self, self._next_page_url, t, "Failed to get next page")

\* go_prev_page fetching the next page's URL.
go_prev_page_wrong_url(self, t) ==
  IF self._page <= self._first_page
    THEN OutOfRange(self, "No previous page available")
    ELSE fetch_and_apply(self, self._next_page_url, t, "Failed to get previous page")

go_next_page(self, t) ==
  IF self._page >= self._last_page
    THEN OutOfRange(self, "No next page available")
    ELSE fetch_and_apply(self, self._next_page_url, t, "Failed to get next page")

go_prev_page(self, t) ==
  IF self._page <= self._first_page
    THEN OutOfRange(self, "No previous page available")
    ELSE fetch_and_apply(self, self._prev_page_url, t, "Failed to get previous page")

go_first_page(self, t) ==
  fetch_and_apply(self, self._first_url, t, "Failed to get first page")

go_last_page(self, t) ==
  fetch_and_apply(self, self._next_url, t, "Failed to get last page")

\* ------------------------------------------------------------------ cache
\* src/src/api/api_utils.py.  The cache is a dict of dicts: a function from
\* the cache keys present to functions from the ids present to objects.
\* An object is a record with its id; the None that a miss returns is PyNone.
EmptyDict == <<>>

\* cache_fetch_by_id with cache.setdefault(cache_key, {}) in place of
\* cache.get(cache_key, {}).
cache_fetch_by_id_setdefault(cache_key, target_id, cache) ==
  LET c == IF cache_key \in DOMAIN cache THEN cache ELSE (cache_key :> EmptyDict) @@ cache
  IN IF target_id \in DOMAIN c[cache_key]
       THEN [cache |-> c, result |-> c[cache_key][target_id]]
       ELSE [cache |-> c, result |-> PyNone]

\* cache_fetch_by_id: the value returned and the cache after the call.
cache_fetch_by_id(cache_key, target_id, cache) ==
  LET inner == IF cache_key \in DOMAIN cache THEN cache[cache_key] ELSE EmptyDict
  IN IF target_id \in DOMAIN inner
       THEN [cache |-> cache, result |-> cache[cache_key][target_id]]
       ELSE [cache |-> cache, result |-> PyNone]

\* The loop `for obj in objects: cache[cache_key][obj.id] = obj` from the
\* i-th object on.
RECURSIVE StoreObjects(_, _, _, _)
StoreObjects(cache, cache_key, objects, i) ==
  IF i > Len(objects)
    THEN cache
    ELSE StoreObjects(
           [cache EXCEPT ![cache_key] = (objects[i].id :> objects[i]) @@ @],
           cache_key, objects, i + 1)

\* The same loop with an id already cached left as it is.
RECURSIVE StoreObjectsKeepFirst(_, _, _, _)
StoreObjectsKeepFirst(cache, cache_key, objects, i) ==
  IF i > Len(objects)
    THEN cache
    ELSE StoreObjectsKeepFirst(
           [cache EXCEPT ![cache_key] = @ @@ (objects[i].id :> objects[i])],
           cache_key, objects, i + 1)

\* cache_object_by_id that does not overwrite an id already cached.
cache_object_by_id_keeps_first(cache_key, cache, objects) ==
  StoreObjectsKeepFirst(
    IF cache_key \notin DOMAIN cache THEN (cache_key :> EmptyDict) @@ cache ELSE cache,
    cache_key, objects, 1)

\* cache_object_by_id: the cache after the call.
cache_object_by_id(cache_key, cache, objects) ==
  StoreObjects(
    IF cache_key \notin DOMAIN cache THEN (cache_key :> EmptyDict) @@ cache ELSE cache,
    cache_key, objects, 1)

\* ----------------------------------------------------------------- server
\* The payloads a page can carry.
Data == {"a", "b"}
\* Status codes of a request the server does not answer with 200.
FailureCodes == {404, 500}

PageEndpoint(k) == <<"page", k>>

\* The envelope of page p of a collection whose pages are f..l.
PageEnvelope(d, p, f, l) ==
  [data |-> d, current_page |-> p, first_page |-> f, last_page |-> l,
   prev_page_url |-> IF p > f THEN PageEndpoint(p - 1) ELSE None,
   next_page_url |-> IF p < l THEN PageEndpoint(p + 1) ELSE None,
   first_page_url |-> PageEndpoint(f)]

Restrict(e, K) == [k \in K |-> e[k]]

\* The key sets of the envelopes an unreliable server sends: complete, one
\* key missing, a flat envelope, and an envelope with neither data nor
\* current_page.
Shapes ==
  {Keys} \cup {Keys \ {k} : k \in Keys}
    \cup {{"data"}, Keys \ {"data", "current_page"}}

\* The first page numbers an unreliable server writes into an envelope.
FirstPages == {1, 2}

FullEnvelopes ==
  {PageEnvelope(d, p, f, l) :
     d \in Data, p \in 0..MaxPage, f \in FirstPages, l \in 1..MaxPage}

UnreliableEnvelopes == {Restrict(e, K) : e \in FullEnvelopes, K \in Shapes}

\* The bodies of a response that is not a 200: an error text, or the
\* envelope of a one-page collection.
FailureBodies == {InvalidBody} \cup {ObjectBody(PageEnvelope(d, 1, 1, 1)) : d \in Data}

\* An unreliable server answers any request with any status and any body.
UnreliableResponses ==
  {ApiResponse(HTTP_OK, ObjectBody(e)) : e \in UnreliableEnvelopes}
    \cup {ApiResponse(HTTP_OK, b) : b \in {InvalidBody, NullBody, ObjectBody(<<>>)}}
    \cup {ApiResponse(c, b) : c \in FailureCodes, b \in FailureBodies}

\* A consistent server holds one collection of pages first..last and
\* answers the URL of page k with that page's envelope, any other URL
\* with 404.
Unreliable == [kind |-> "unreliable", first |-> 0, last |-> 0]
Consistent(f, l) == [kind |-> "consistent", first |-> f, last |-> l]
Servers ==
  {Unreliable} \cup {Consistent(f, l) : f \in 1..MaxLast, l \in 1..MaxLast}

ConsistentResponses(srv, url) ==
  LET ks == {k \in srv.first..srv.last : url = form_url_endpoint(PageEndpoint(k))}
  IN IF ks = {}
       THEN {ApiResponse(404, InvalidBody)}
       ELSE {ApiResponse(HTTP_OK, ObjectBody(PageEnvelope(d, k, srv.first, srv.last))) :
               d \in Data, k \in ks}

\* The exceptions requests.get raises when the server cannot be reached.
TransportErrors == {"ConnectionError"}

\* What the transport may do with a GET of url: the consistent server
\* is always reached; the unreliable one may not be.
Serve(srv, url) ==
  IF srv.kind = "unreliable"
    THEN {Answered(r) : r \in UnreliableResponses} \cup {Raised(e) : e \in TransportErrors}
    ELSE {Answered(r) : r \in ConsistentResponses(srv, url)}

\* The responses a caller may hold before classifying: the answer to a
\* first GET of some page of the collection.
FirstResponses(srv) ==
  IF srv.kind = "unreliable"
    THEN UnreliableResponses
    ELSE UNION {ConsistentResponses(srv, form_url_endpoint(PageEndpoint(k))) :
                  k \in srv.first..srv.last}

\* ------------------------------------------------------------------ state
VARIABLES
  server,     \* the behaviour of the HTTP server
  response,   \* the ApiResponse the caller holds and has not classified yet
  obj,        \* the StdResponse or PaginatedResponse object, once built
  exc,        \* the exception the last call raised
  op,         \* the last call made
  requested,  \* the URLs the last call sent a GET to
  status,     \* the status code the last call received, 0 if it sent nothing
  received,   \* what the last call worked on: the response it classified,
              \* or what the transport did with its request
  trip,       \* observer of go_next_page followed by go_prev_page
  applied,    \* observer: the navigation URLs of the envelope most recently
              \* applied in full (by the constructor or a navigation call)
  cache,      \* the cache dict the helpers of api_utils work on
  cacheOp,    \* the last call of a cache helper, with its arguments
  found,      \* what the last cache_fetch_by_id returned
  stored,     \* observer: the object last passed to cache_object_by_id
              \* under each (cache_key, id), PyNone if none was
  threads     \* the navigation call each thread sharing obj is running

paginationVars ==
  <<server, response, obj, exc, op, requested, status, received, trip, applied>>

cacheVars == <<cache, cacheOp, found, stored>>

vars == <<paginationVars, cacheVars, threads>>

NoTrip == [stage |-> 0, from |-> NoObject]
UrlKeys == {"prev_page_url", "next_page_url", "first_page_url"}
NoneApplied == [k \in UrlKeys |-> None]

\* The observer of applied envelopes after a call that worked on body and
\* ended with exception e building or updating a PaginatedResponse.
Applied(body, e, paginated) ==
  IF e = NoException /\ paginated
    THEN [k \in UrlKeys |-> IF k \in DOMAIN body.obj THEN body.obj[k] ELSE None]
    ELSE applied

\* The objects callers cache: anything with an id.
Ids == 1..MaxId
Payloads == {"x", "y"}
CacheKeys == {"users", "orders"}
Objects == [id : Ids, payload : Payloads]
ObjectLists == UNION {[1..n -> Objects] : n \in 0..MaxObjects}

NoCacheCall == [name |-> "idle", cache_key |-> "", target_id |-> 0, objects |-> <<>>]

\* No cache helper has been called on the (empty) cache.
CacheUnused ==
  /\ cache = EmptyDict
  /\ cacheOp = NoCacheCall
  /\ found = PyNone
  /\ stored = [k \in CacheKeys, i \in Ids |-> PyNone]

Threads == {1, 2}
NotStarted == [pc |-> "ready", name |-> "", pr |-> PyNone, i |-> 0, exc |-> NoException]

\* No thread has called the cursor.
ThreadsUnused == threads = [t \in Threads |-> NotStarted]

Init ==
  /\ CacheUnused
  /\ ThreadsUnused
  /\ server \in {s \in Servers : s.kind = "unreliable" \/ s.first <= s.last}
  /\ response \in FirstResponses(server)
  /\ obj = NoObject
  /\ exc = NoException
  /\ op = "start"
  /\ requested = <<>>
  /\ status = 0
  /\ received = NoOutcome
  /\ trip = NoTrip
  /\ applied = NoneApplied

\* The caller classifies the response it holds.
Classify ==
  /\ op = "start"
  /\ \E c \in {as_paginated_response(response)} :
       /\ obj' = c.obj
       /\ exc' = c.exc
       /\ applied' = Applied(response.response_body, c.exc,
                             c.obj.class = "PaginatedResponse")
  /\ op' = "as_paginated_response"
  /\ received' = Answered(response)
  /\ response' = NoResponse
  /\ UNCHANGED <<server, requested, status, trip, cacheVars, threads>>

\* The observer: against a consistent server, stage 1 after a successful
\* go_next_page (from holds the cursor before it), stage 2 after the
\* go_prev_page called next.
Observe(name, before, o) ==
  IF server.kind # "consistent" THEN trip
  ELSE IF name = "go_next_page" /\ o.exc = NoException
    THEN [stage |-> 1, from |-> before]
  ELSE IF name = "go_prev_page" /\ trip.stage = 1
    THEN [stage |-> 2, from |-> trip.from]
  ELSE NoTrip

\* The method of the cursor that a call by name runs.
Call(name, self, t) ==
  CASE name = "go_next_page" -> go_next_page(self, t)
    [] name = "go_prev_page" -> go_prev_page(self, t)
    [] name = "go_first_page" -> go_first_page(self, t)
    [] name = "go_last_page" -> go_last_page(self, t)

\* One navigation call on the cursor.  The call decides whether and where it
\* sends a request; the server decides the response.
Navigate(name) ==
  /\ op = "idle"
  /\ obj.class = "PaginatedResponse"
  /\ \E probe \in {Call(name, obj, NoOutcome)} :
       \E t \in IF probe.requested = <<>>
                  THEN {NoOutcome}
                  ELSE Serve(server, probe.requested[1]) :
         \E o \in {Call(name, obj, t)} :
           /\ obj' = o.obj
           /\ exc' = o.exc
           /\ requested' = o.requested
           /\ status' = o.status
           /\ received' = t
           /\ applied' = Applied(t.response.response_body, o.exc, TRUE)
           /\ trip' = Observe(name, obj, o)
  /\ op' = name
  /\ UNCHANGED <<server, response, cacheVars, threads>>

GoNextPage ==
  /\ Navigate("go_next_page")

GoPrevPage ==
  /\ Navigate("go_prev_page")

GoFirstPage ==
  /\ Navigate("go_first_page")

GoLastPage ==
  /\ Navigate("go_last_page")

\* The call returns or its exception reaches the caller, which is then free
\* to make its next call on the object it holds.
Return ==
  /\ op \notin {"start", "idle"}
  /\ op' = "idle"
  /\ exc' = NoException
  /\ requested' = <<>>
  /\ status' = 0
  /\ received' = NoOutcome
  /\ UNCHANGED <<server, response, obj, trip, applied, cacheVars, threads>>

Next ==
  \/ Classify
  \/ GoNextPage
  \/ GoPrevPage
  \/ GoFirstPage
  \/ GoLastPage
  \/ Return

Spec == Init /\ [][Next]_vars

\* --------------------------------------------------- the cache in use
\* The object the call cache_object_by_id(_, _, objects) leaves on record
\* for id i: the last one in the list with that id.
LastWithId(objects, i) ==
  objects[CHOOSE j \in 1..Len(objects) :
            /\ objects[j].id = i
            /\ \A j2 \in (j + 1)..Len(objects) : objects[j2].id # i]

\* A caller looks an object up.
CacheFetchById ==
  /\ cacheOp = NoCacheCall
  /\ \E cache_key \in CacheKeys, target_id \in Ids :
       \E r \in {cache_fetch_by_id(cache_key, target_id, cache)} :
         /\ cache' = r.cache
         /\ found' = r.result
         /\ cacheOp' = [name |-> "cache_fetch_by_id", cache_key |-> cache_key,
                        target_id |-> target_id, objects |-> <<>>]
  /\ UNCHANGED <<stored, paginationVars, threads>>

\* A caller caches a list of objects.
CacheObjectById ==
  /\ cacheOp = NoCacheCall
  /\ \E cache_key \in CacheKeys, objects \in ObjectLists :
       /\ cache' = cache_object_by_id(cache_key, cache, objects)
       /\ stored' = [k \in CacheKeys, i \in Ids |->
                      IF k = cache_key /\ \E j \in 1..Len(objects) : objects[j].id = i
                        THEN LastWithId(objects, i)
                        ELSE stored[k, i]]
       /\ cacheOp' = [name |-> "cache_object_by_id", cache_key |-> cache_key,
                      target_id |-> 0, objects |-> objects]
  /\ UNCHANGED <<found, paginationVars, threads>>

\* The helper returns to its caller.
CacheReturn ==
  /\ cacheOp # NoCacheCall
  /\ cacheOp' = NoCacheCall
  /\ found' = PyNone
  /\ UNCHANGED <<cache, stored, paginationVars, threads>>

\* No response has been received and no cursor built.
PaginationUnused ==
  /\ server = Unreliable
  /\ response = NoResponse
  /\ obj = NoObject
  /\ exc = NoException
  /\ op = "idle"
  /\ requested = <<>>
  /\ status = 0
  /\ received = NoOutcome
  /\ trip = NoTrip
  /\ applied = NoneApplied

InitCache ==
  /\ CacheUnused
  /\ ThreadsUnused
  /\ PaginationUnused

NextCache ==
  \/ CacheFetchById
  \/ CacheObjectById
  \/ CacheReturn

SpecCache == InitCache /\ [][NextCache]_vars

\* ----------------------------------------- threads sharing one cursor
\* The code takes no lock and copies nothing: threads that call the same
\* PaginatedResponse run its methods on the same attributes, and the
\* interpreter may switch threads between any two statements.

\* Whether a call that sent its request and got outcome t from the
\* transport reaches its last statement, self._set_data_from_new_reponse(pr).
\* Nothing before that statement writes to self.
Fetched(o, t) ==
  /\ o.requested # <<>>
  /\ t.error = ""
  /\ t.response.response_code = HTTP_OK
  /\ json_loads(t.response.response_body).exc = NoException

Failed(e) == [pc |-> "failed", name |-> "", pr |-> PyNone, i |-> 0, exc |-> e]

\* Thread t calls a navigation method and runs it up to the first
\* assignment of _set_data_from_new_reponse: guard, GET, status check,
\* json.loads and the test `if not pr`.
ThreadCall(t) ==
  /\ threads[t].pc = "ready"
  /\ \E name \in {"go_next_page", "go_prev_page", "go_first_page", "go_last_page"} :
       \E probe \in {Call(name, obj, NoOutcome)} :
         \E r \in IF probe.requested = <<>>
                    THEN {NoOutcome}
                    ELSE Serve(server, probe.requested[1]) :
           \E o \in {Call(name, obj, r)} :
             threads' = [threads EXCEPT ![t] =
               IF ~Fetched(o, r)
                 THEN Failed(o.exc)
                 ELSE LET pr == json_loads(r.response.response_body).value
                      IN IF Falsy(pr)
                           THEN Failed(set_data_from_new_reponse(obj, pr).exc)
                           ELSE [pc |-> "assign", name |-> name, pr |-> pr,
                                 i |-> 1, exc |-> NoException]]
  /\ UNCHANGED <<paginationVars, cacheVars>>

\* Thread t executes its next assignment `self.attr = pr[key]`.
ThreadAssign(t) ==
  /\ threads[t].pc = "assign"
  /\ \E a \in {Assign(obj, threads[t].pr, <<SetAssignments[threads[t].i]>>, 1)} :
       /\ obj' = a.obj
       /\ threads' = [threads EXCEPT ![t] =
            IF a.exc # NoException
              THEN Failed(a.exc)
              ELSE [@ EXCEPT !.i = @ + 1,
                             !.pc = IF threads[t].i = Len(SetAssignments)
                                      THEN "done" ELSE "assign"]]
  /\ UNCHANGED <<server, response, exc, op, requested, status, received, trip,
                 applied, cacheVars>>

\* The cursor a caller built from the first response of a consistent
\* server, about to be shared by the threads.
InitConcurrent ==
  /\ CacheUnused
  /\ ThreadsUnused
  /\ server \in {s \in Servers : s.kind = "consistent" /\ s.first <= s.last}
  /\ \E r \in FirstResponses(server) :
       /\ received = Answered(r)
       /\ obj = as_paginated_response(r).obj
       /\ applied = [k \in UrlKeys |-> r.response_body.obj[k]]
  /\ response = NoResponse
  /\ exc = NoException
  /\ op = "as_paginated_response"
  /\ requested = <<>>
  /\ status = 0
  /\ trip = NoTrip

NextConcurrent ==
  \/ \E t \in Threads : ThreadCall(t)
  \/ \E t \in Threads : ThreadAssign(t)

SpecConcurrent == InitConcurrent /\ [][NextConcurrent]_vars

\* ----------------------------------------------------------------- claims
NavOps == {"go_next_page", "go_prev_page", "go_first_page", "go_last_page"}

\* This step is a navigation call on the cursor.
NavStep == op = "idle" /\ op' \in NavOps

\* This step classifies the response the caller holds.
ClassifyStep == op = "start" /\ op' = "as_paginated_response"

\* The page position and the navigation URLs of a cursor.
Position(c) ==
  <<c._page, c._first_page, c._last_page,
    c._prev_page_url, c._next_page_url, c._first_url, c._next_url>>

\* C1: in every reachable state of a PaginatedResponse, whatever envelopes
\* the server returned, first_page <= page <= last_page.
C1_BoundsInvariant ==
  obj.class = "PaginatedResponse" =>
    obj._first_page <= obj._page /\ obj._page <= obj._last_page

\* C2: a navigation call that receives a status other than 200 fails (with
\* the ValueError of the status check) and leaves every attribute of the
\* cursor as it was before the call.
C2_NonSuccessLeavesCursor ==
  [][(NavStep /\ status' \notin {0, HTTP_OK}) =>
       (exc'.type = "ValueError" /\ obj' = obj)]_vars

\* C2 witness: a navigation call has just received a non-200 status.
C2_Witness ==
  /\ op \in NavOps
  /\ status \notin {0, HTTP_OK}
  /\ exc.type = "ValueError"
  /\ requested # <<>>

\* C3: a navigation call that receives a 200 whose envelope cannot be
\* applied in full (empty, or a required key missing) fails and leaves every
\* attribute of the cursor as it was before the call.
C3_ApplyAllOrNothing ==
  [][(NavStep /\ status' = HTTP_OK /\ exc' # NoException) => obj' = obj]_vars

\* C4: go_next_page at page >= last_page and go_prev_page at
\* page <= first_page raise IndexError, send no request and leave every
\* attribute of the cursor unchanged.
C4_GuardViolation ==
  [][(/\ NavStep
      /\ \/ op' = "go_next_page" /\ obj._page >= obj._last_page
         \/ op' = "go_prev_page" /\ obj._page <= obj._first_page)
       => (exc'.type = "IndexError" /\ requested' = <<>> /\ status' = 0 /\ obj' = obj)]_vars

\* C4 witness: go_next_page was called on the last page and raised.
C4_Witness ==
  /\ op = "go_next_page"
  /\ obj._page = obj._last_page
  /\ exc.type = "IndexError"
  /\ requested = <<>>

\* C5: has_prev_page() is true exactly when page > first_page (exactly when
\* go_prev_page passes its guard) and has_next_page() exactly when
\* page < last_page.
C5_HasPrevHasNext ==
  obj.class = "PaginatedResponse" =>
    /\ has_prev_page(obj) <=> obj._page > obj._first_page
    /\ has_next_page(obj) <=> obj._page < obj._last_page

\* The decoded envelope of a response whose body is a non-empty JSON object.
IsEnvelope(resp) ==
  resp.response_body.json = "object" /\ DOMAIN resp.response_body.obj # {}

Envelope(resp) == resp.response_body.obj

TruthyCurrentPage(e) == "current_page" \in DOMAIN e /\ e["current_page"] # 0

\* The keys the chosen representation of an envelope reads.
RequiredKeys(e) == IF TruthyCurrentPage(e) THEN Keys ELSE {"data"}

\* C6 as stated: every non-empty envelope is classified, as a
\* PaginatedResponse when current_page is truthy and as a StdResponse
\* carrying the envelope's data otherwise.
C6_ClassifiesEveryEnvelope ==
  [][(ClassifyStep /\ IsEnvelope(response)) =>
       IF TruthyCurrentPage(Envelope(response))
         THEN obj'.class = "PaginatedResponse"
         ELSE /\ obj'.class = "StdResponse"
              /\ "data" \in DOMAIN Envelope(response)
              /\ obj'.data = Envelope(response)["data"]]_vars

\* C6 amended: every non-empty envelope that holds the keys its
\* representation reads is classified, as a PaginatedResponse when
\* current_page is truthy and as a StdResponse carrying the envelope's data
\* otherwise (current_page absent or 0).
C6_ClassifiesCompleteEnvelope ==
  [][(/\ ClassifyStep
      /\ IsEnvelope(response)
      /\ RequiredKeys(Envelope(response)) \subseteq DOMAIN Envelope(response))
       => /\ exc' = NoException
          /\ IF TruthyCurrentPage(Envelope(response))
               THEN obj'.class = "PaginatedResponse"
               ELSE /\ obj'.class = "StdResponse"
                    /\ obj'.data = Envelope(response)["data"]]_vars

\* C6 witness: a classification has produced a StdResponse.
C6_Witness ==
  /\ op = "as_paginated_response"
  /\ obj.class = "StdResponse"
  /\ obj.data \in Data
  /\ exc = NoException

\* C7: against a consistent server, a successful go_next_page followed by
\* go_prev_page succeeds and restores page, first_page, last_page and the
\* navigation URLs the cursor had before the two calls.
C7_RoundTrip ==
  trip.stage = 2 =>
    /\ exc = NoException
    /\ obj.class = "PaginatedResponse"
    /\ Position(obj) = Position(trip.from)

\* C7 witness: go_prev_page has just returned after a successful
\* go_next_page from a page before the last.
C7_Witness ==
  /\ trip.stage = 2
  /\ op = "go_prev_page"
  /\ trip.from._first_page <= trip.from._page
  /\ trip.from._page < trip.from._last_page
  /\ obj._page = trip.from._page

\* C8: against a consistent server, a successful go_last_page leaves the
\* cursor on the last page.
C8_GoLastPageReachesLast ==
  (server.kind = "consistent" /\ op = "go_last_page" /\ exc = NoException) =>
    obj._page = obj._last_page

\* C9: classifying a body that decodes to null and one that decodes to {}
\* both fail with the empty-response error (the ValueError "Response cannot
\* be None") and produce no object.
C9_EmptyEnvelopeRejected ==
  [][(/\ ClassifyStep
      /\ \/ response.response_body.json = "null"
         \/ response.response_body.json = "object" /\ DOMAIN Envelope(response) = {})
       => (obj' = NoObject /\ exc' = Exception("ValueError", "Response cannot be None"))]_vars

\* C10: classifying a non-empty envelope that lacks a key its representation
\* reads raises KeyError naming a missing key and produces no object.
C10_MissingKeyNamed ==
  [][(/\ ClassifyStep
      /\ IsEnvelope(response)
      /\ ~(RequiredKeys(Envelope(response)) \subseteq DOMAIN Envelope(response)))
       => /\ obj' = NoObject
          /\ exc'.type = "KeyError"
          /\ exc'.arg \in RequiredKeys(Envelope(response)) \ DOMAIN Envelope(response)]_vars

\* C10 witness: a classification has failed naming last_page.
C10_Witness ==
  /\ op = "as_paginated_response"
  /\ obj = NoObject
  /\ exc = Exception("KeyError", "last_page")

\* The three causes of failure the caller must be able to tell apart, and
\* whether the last call failed for that cause.
Causes == {"guard", "status", "unparsable"}

HasCause(c) ==
  CASE c = "guard" -> op \in NavOps /\ requested = <<>>
    [] c = "status" ->
         /\ op \in NavOps
         /\ requested # <<>>
         /\ received.error = ""
         /\ received.response.response_code # HTTP_OK
    [] c = "unparsable" ->
         /\ \/ op = "as_paginated_response"
            \/ op \in NavOps /\ requested # <<>>
                 /\ received.response.response_code = HTTP_OK
         /\ received.error = ""
         /\ received.response.response_body.json = "invalid"

\* The exception class each cause surfaces as.
KindOf(c) ==
  CASE c = "guard" -> "IndexError"
    [] c = "status" -> "ValueError"
    [] c = "unparsable" -> "JSONDecodeError"

\* C11: a navigation past an edge, a non-success status and an unparsable
\* body each surface as their own error kind, and the exception of one
\* cause is not caught by a handler for the kind of another.
C11_ErrorKindsDistinct ==
  \A c \in Causes :
    HasCause(c) =>
      /\ exc.type = KindOf(c)
      /\ \A c2 \in Causes \ {c} : ~Catches(KindOf(c2), exc.type)

\* C12: an exception of the transport during a navigation call reaches the
\* caller as it was raised, after the one request, and leaves every
\* attribute of the cursor unchanged (so a retry starts from the state the
\* failed call started from).
C12_TransportFailurePropagates ==
  [][(NavStep /\ received'.error # "") =>
       /\ exc' = Exception(received'.error, "requests.get")
       /\ Len(requested') = 1
       /\ obj' = obj]_vars

\* C12 witness: a navigation call has just failed in the transport.
C12_Witness ==
  /\ op \in NavOps
  /\ received.error = "ConnectionError"
  /\ exc.type = "ConnectionError"
  /\ obj.class = "PaginatedResponse"

\* The stored URL go_first_page and go_last_page fetch.
TargetUrl(name, c) == IF name = "go_first_page" THEN c._first_url ELSE c._next_url

\* C15: go_first_page and go_last_page send their one request whenever the
\* stored target URL is present, whatever the page, and fail without a
\* request when it is None.
C15_LegalIffUrlPresent ==
  [][(NavStep /\ op' \in {"go_first_page", "go_last_page"}) =>
       IF TargetUrl(op', obj) = None
         THEN requested' = <<>> /\ exc' # NoException /\ obj' = obj
         ELSE Len(requested') = 1]_vars

\* C16: after a successful navigation call the cursor equals, attribute for
\* attribute, the PaginatedResponse constructed from the envelope the call
\* received, whatever the cursor was before and whichever call it was.
C16_SameAsFreshObject ==
  [][(NavStep /\ exc' = NoException) =>
       obj' = PaginatedResponse(json_loads(received'.response.response_body).value).obj]_vars

\* C16 witness: a navigation call has just applied the envelope it received.
C16_Witness ==
  /\ op \in NavOps
  /\ exc = NoException
  /\ status = HTTP_OK
  /\ received.response.response_body.json = "object"
  /\ obj._page = received.response.response_body.obj["current_page"]

\* The envelope key whose URL each of the three calls is to fetch.
UrlKeyOf(name) ==
  CASE name = "go_next_page" -> "next_page_url"
    [] name = "go_prev_page" -> "prev_page_url"
    [] name = "go_first_page" -> "first_page_url"

\* Whether the call passes its guard on the cursor c.
PassesGuard(name, c) ==
  CASE name = "go_next_page" -> c._page < c._last_page
    [] name = "go_prev_page" -> c._page > c._first_page
    [] OTHER -> TRUE

\* C14: go_next_page, go_prev_page and go_first_page, once past their
\* guard, send exactly one GET, to the URL that the most recently applied
\* envelope gave for that direction.
C14_OneGetToCurrentUrl ==
  [][(/\ NavStep
      /\ op' \in {"go_next_page", "go_prev_page", "go_first_page"}
      /\ PassesGuard(op', obj))
       => /\ Len(requested') = 1
          /\ requested'[1] = form_url_endpoint(applied[UrlKeyOf(op')])]_vars

\* The entry of cache c under (k, i), PyNone if there is none.
Entry(c, k, i) ==
  IF k \in DOMAIN c /\ i \in DOMAIN c[k] THEN c[k][i] ELSE PyNone

\* C13: after any sequence of cache_object_by_id calls, cache_fetch_by_id
\* returns the object most recently stored under (key, id), and None when
\* nothing was ever stored under that key or id (the key absent included).
C13_CacheRoundTrip ==
  cacheOp.name = "cache_fetch_by_id" =>
    found = stored[cacheOp.cache_key, cacheOp.target_id]

\* C13 witness: a fetch has just returned an object stored under an id,
\* while another object with that id sits under the other key.
C13_Witness ==
  /\ cacheOp.name = "cache_fetch_by_id"
  /\ found \in Objects
  /\ found.id = cacheOp.target_id
  /\ \E k \in CacheKeys \ {cacheOp.cache_key} :
       /\ stored[k, cacheOp.target_id] \in Objects
       /\ stored[k, cacheOp.target_id] # found

\* This step is a call of the named cache helper.
CacheStep(name) == cacheOp = NoCacheCall /\ cacheOp'.name = name

\* The ids of the objects in a list.
IdsOf(objects) == {objects[j].id : j \in 1..Len(objects)}

\* C17: cache_fetch_by_id never modifies the cache; cache_object_by_id
\* changes only the entries under its key whose ids occur in its list,
\* leaving every other key and id as it was, and with an empty list leaves
\* at most an empty mapping under its key.
C17_CacheFrame ==
  [][/\ CacheStep("cache_fetch_by_id") => cache' = cache
     /\ CacheStep("cache_object_by_id") =>
          LET key == cacheOp'.cache_key
              ids == IdsOf(cacheOp'.objects)
          IN /\ DOMAIN cache' = DOMAIN cache \cup {key}
             /\ \A k \in DOMAIN cache \ {key} : cache'[k] = cache[k]
             /\ DOMAIN cache'[key] =
                  ids \cup (IF key \in DOMAIN cache THEN DOMAIN cache[key] ELSE {})
             /\ \A i \in DOMAIN cache'[key] \ ids : cache'[key][i] = cache[key][i]
             /\ (ids = {} /\ key \notin DOMAIN cache) => cache'[key] = EmptyDict]_vars

\* C17 witness: a fetch has just missed on a key the cache does not hold,
\* and the cache holds objects under the other key.
C17_Witness ==
  /\ cacheOp.name = "cache_fetch_by_id"
  /\ cacheOp.cache_key \notin DOMAIN cache
  /\ found = PyNone
  /\ \E k \in DOMAIN cache : DOMAIN cache[k] # {}

\* The cursor whose fields all come from envelope e.
OfEnvelope(e) ==
  [class |-> "PaginatedResponse",
   data |-> e["data"],
   _page |-> e["current_page"],
   _first_page |-> e["first_page"],
   _last_page |-> e["last_page"],
   _prev_page_url |-> e["prev_page_url"],
   _next_page_url |-> e["next_page_url"],
   _first_url |-> e["first_page_url"],
   _next_url |-> e["next_page_url"]]

\* The envelopes the cursor has been given: the one it was built from and
\* the ones the completed calls fetched.
GivenEnvelopes ==
  {received.response.response_body.obj}
    \cup {threads[t].pr.items : t \in {u \in Threads : threads[u].pc = "done"}}

\* C18: once two concurrent navigation calls on one cursor have completed,
\* all fields of the cursor come from one and the same fetched envelope.
C18_NoInterleavedWrites ==
  (\A t \in Threads : threads[t].pc \in {"done", "failed"}) =>
    \E e \in GivenEnvelopes : obj = OfEnvelope(e)

====
